---- MODULE Spec2Model ----
(***************************************************************************)
(* Model of cmd/font2go/webfont.go: Glyph.ParsePath, parseParams, atof and *)
(* the three regular expressions cmdRE, closeRE and numRE.                 *)
(*                                                                         *)
(* A Go string is a sequence of bytes.  A byte is written as a one         *)
(* character TLA+ string, except the two bytes of the UTF-8 encoding of    *)
(* U+017F (LATIN SMALL LETTER LONG S), which are written "C5" and "BF".    *)
(* Go's regexp package decodes its input rune by rune, and (?i) folds 's'  *)
(* to the orbit {s, S, U+017F} (unicode.SimpleFold), so that rune is a     *)
(* member of the case-insensitive class [mlhvcsqta].                       *)
(***************************************************************************)
EXTENDS Integers, Sequences, FiniteSets, TLC

\* ------------------------------------------------------------------ bounds
MaxLen == 4       \* longest primary path, in runes, of the wide alphabet
MaxOrig == 3      \* longest path, in runes, of the glyphs that carry an override
MaxLP == 3        \* longest polarity marker

\* ----------------------------------------------------------------- strings
\* a *string is a sequence of at most one string: empty for nil
NilPtr == <<>>
Ptr(s) == <<s>>
Deref(p) == p[1]

LongS == "LONGS"  \* the rune U+017F, encoded as the bytes C5 BF

\* one symbol of a string that stands for 309 consecutive bytes '9': a number
\* too large for float64.  No slice of the program falls inside it.
Nines == "9x309"

Utf8(r) == IF r = LongS THEN <<"C5", "BF">> ELSE <<r>>

RECURSIVE Encode(_)
Encode(rs) == IF rs = <<>> THEN <<>> ELSE Utf8(Head(rs)) \o Encode(Tail(rs))

\* variant: one byte too many is dropped
From_OffByOne(s, i) == SubSeq(s, i + 2, Len(s))

\* s[i:] and s[:i] of Go, i counted in bytes from 0
From(s, i) == SubSeq(s, i + 1, Len(s))

\* utf8.DecodeRuneInString as the regexp engine uses it: the rune at the head
\* of s and its width; a byte that starts no valid encoding is RuneError, width 1
DecodeRune(s) ==
    IF Len(s) >= 2 /\ s[1] = "C5" /\ s[2] = "BF" THEN [r |-> LongS, w |-> 2]
    ELSE IF s[1] \in {"C5", "BF"} THEN [r |-> "RuneError", w |-> 1]
    ELSE [r |-> s[1], w |-> 1]

\* ------------------------------------------------------- character classes
\* \s and \d of RE2 are ASCII classes
IsSpace(c) == c \in {" ", "\t", "\n", "\r", "\f"}
IsDigit(c) == c \in {"0", "1", "2", "3", "4", "5", "6", "7", "8", "9", Nines}

\* [,\s+] is a character class: a comma, a whitespace character or a plus sign
IsSep(c) == c = "," \/ IsSpace(c) \/ c = "+"

\* (?i)[mlhvcsqta]: both cases of each letter, and the fold orbit of 's'
CmdClass == {"m", "l", "h", "v", "c", "s", "q", "t", "a",
             "M", "L", "H", "V", "C", "S", "Q", "T", "A", LongS}

\* (?i)z
CloseClass == {"z", "Z"}

\* ---------------------------------------------------------------- matching
\* positions are 1-based indices of the next unread byte

RECURSIVE SkipSpace(_, _)
SkipSpace(s, i) ==
    IF i <= Len(s) /\ IsSpace(s[i]) THEN SkipSpace(s, i + 1) ELSE i

RECURSIVE SkipDigits(_, _)
SkipDigits(s, i) ==
    IF i <= Len(s) /\ IsDigit(s[i]) THEN SkipDigits(s, i + 1) ELSE i

\* -?\d+\.?\d* at position i: the position after the match, 0 when it fails
NumEnd(s, i) ==
    LET a == IF i <= Len(s) /\ s[i] = "-" THEN i + 1 ELSE i
        b == SkipDigits(s, a)
        c == IF b <= Len(s) /\ s[b] = "." THEN b + 1 ELSE b
    IN  IF b = a THEN 0 ELSE SkipDigits(s, c)

\* [,\s+]? at position i
SepEnd(s, i) == IF i <= Len(s) /\ IsSep(s[i]) THEN i + 1 ELSE i

\* \s*(-?\d+\.?\d*)[,\s+]? at position i: the position after the match, 0 when it fails
TokenEnd(s, i) ==
    LET e == NumEnd(s, SkipSpace(s, i))
    IN  IF e = 0 THEN 0 ELSE SepEnd(s, e)

\* (?: ... )+ continued greedily from position i, after at least one repetition
RECURSIVE RunEnd(_, _)
RunEnd(s, i) ==
    LET e == TokenEnd(s, i)
    IN  IF e = 0 THEN i ELSE RunEnd(s, e)

\* variant: \d* for \d+, so that the pattern also matches the empty string
numRE_NoDigit(s) ==
    LET w == SkipSpace(s, 1)
        e == NumEnd(s, w)
    IN  IF e = 0 THEN [ok |-> TRUE, m0 |-> <<>>, m1 |-> <<>>]
        ELSE [ok |-> TRUE,
              m0 |-> SubSeq(s, 1, SepEnd(s, e) - 1),
              m1 |-> SubSeq(s, w, e - 1)]

\* numRE.FindStringSubmatch(s): m[0] and m[1], or no match
numRE(s) ==
    LET w == SkipSpace(s, 1)
        e == NumEnd(s, w)
    IN  IF s = <<>> \/ e = 0 THEN [ok |-> FALSE, m0 |-> <<>>, m1 |-> <<>>]
        ELSE [ok |-> TRUE,
              m0 |-> SubSeq(s, 1, SepEnd(s, e) - 1),
              m1 |-> SubSeq(s, w, e - 1)]

\* variant: the trailing \s* left out
closeRE_NoSpace(s) ==
    IF s # <<>> /\ DecodeRune(s).r \in CloseClass
    THEN [ok |-> TRUE, m0 |-> <<s[1]>>, m1 |-> <<s[1]>>]
    ELSE [ok |-> FALSE, m0 |-> <<>>, m1 |-> <<>>]

\* closeRE.FindStringSubmatch(s)
closeRE(s) ==
    IF s # <<>> /\ DecodeRune(s).r \in CloseClass
    THEN [ok |-> TRUE, m0 |-> SubSeq(s, 1, SkipSpace(s, 2) - 1), m1 |-> <<s[1]>>]
    ELSE [ok |-> FALSE, m0 |-> <<>>, m1 |-> <<>>]

\* variant: (?: ... )* for (?: ... )+, so that a bare letter matches
cmdRE_NoNumber(s) ==
    IF s = <<>> \/ DecodeRune(s).r \notin CmdClass
    THEN [ok |-> FALSE, m0 |-> <<>>, m1 |-> <<>>]
    ELSE LET w == DecodeRune(s).w
         IN  [ok |-> TRUE,
              m0 |-> SubSeq(s, 1, RunEnd(s, w + 1) - 1),
              m1 |-> SubSeq(s, 1, w)]

\* cmdRE.FindStringSubmatch(s)
cmdRE(s) ==
    IF s = <<>> \/ DecodeRune(s).r \notin CmdClass
    THEN [ok |-> FALSE, m0 |-> <<>>, m1 |-> <<>>]
    ELSE LET w == DecodeRune(s).w
             e == TokenEnd(s, w + 1)
         IN  IF e = 0 THEN [ok |-> FALSE, m0 |-> <<>>, m1 |-> <<>>]
             ELSE [ok |-> TRUE,
                   m0 |-> SubSeq(s, 1, RunEnd(s, e) - 1),
                   m1 |-> SubSeq(s, 1, w)]

\* ------------------------------------------------------------------- atof
RECURSIVE StripZeros(_)
StripZeros(ds) ==
    IF ds # <<>> /\ ds[Len(ds)] = "0" THEN StripZeros(SubSeq(ds, 1, Len(ds) - 1))
    ELSE ds

RECURSIVE StripLeadingZeros(_)
StripLeadingZeros(ds) ==
    IF ds # <<>> /\ ds[1] = "0" THEN StripLeadingZeros(Tail(ds)) ELSE ds

\* the digits before the '.' of a string -?\d+\.?\d*
IntDigits(s) ==
    LET body == IF s # <<>> /\ s[1] = "-" THEN Tail(s) ELSE s
    IN  SubSeq(body, 1, SkipDigits(body, 1) - 1)

\* the digits after the '.'
FracDigits(s) ==
    LET body == IF s # <<>> /\ s[1] = "-" THEN Tail(s) ELSE s
    IN  SubSeq(body, SkipDigits(body, 1) + 1, Len(body))

\* variant: the digits after the '.' are dropped
atofValue_Truncated(s) ==
    [neg |-> s # <<>> /\ s[1] = "-", int |-> StripLeadingZeros(IntDigits(s)),
     frac |-> <<>>]

\* strconv.ParseFloat(s, 64) of a string -?\d+\.?\d*, when err is nil: the
\* number the string denotes, as its sign and its digits before and after the
\* point without the zeros that do not change it.  The sign of zero is kept, as
\* float64 keeps it.  Numbers that differ only beyond the precision of float64
\* are kept apart.
atofValue(s) ==
    [neg |-> s # <<>> /\ s[1] = "-", int |-> StripLeadingZeros(IntDigits(s)),
     frac |-> StripZeros(FracDigits(s))]

\* strconv.ParseFloat(s, 64) returns ErrRange for a number of 10^309 or more
atofFails(s) == \E k \in 1..Len(IntDigits(s)) : IntDigits(s)[k] = Nines

\* ------------------------------------------------------------------- state
VARIABLES
    D, DOrig, GerberLP, Unicode,  \* the Glyph's attributes (each a *string)
    PathSteps,                    \* g.PathSteps
    pc,                           \* where the call of ParsePath stands
    d, numZs,                     \* ParsePath's locals
    m,                            \* the cmdRE match whose parameters are being parsed
    pd, result,                   \* parseParams' d and result
    log,                          \* what log.Printf has written
    fatal,                        \* the log.Fatalf that ended the process, if any
    taken,                        \* history: the prefixes removed from d, in order
    path,                         \* history: the string the scanning loop started on
    old                           \* history: g.PathSteps when ParsePath was called

vars == <<D, DOrig, GerberLP, Unicode, PathSteps, pc, d, numZs, m, pd, result,
          log, fatal, taken, path, old>>

\* what no step of the call changes: the attributes, and the record of the
\* steps the glyph had when the call began
glyph == <<D, DOrig, GerberLP, Unicode, old>>

NoMatch == [ok |-> FALSE, m0 |-> <<>>, m1 |-> <<>>]

\* the runes the primary paths are drawn from
Runes == {"M", "s", "z", "X", "0", "1", Nines, "-", ".", ",", " ", "+", LongS}

\* the runes the paths of the glyphs with an override are drawn from
OrigRunes == {"z", "Z", "M", "1", " "}

Strings(alphabet, n) == {Encode(rs) : rs \in UNION {[1..k -> alphabet] : k \in 0..n}}

Markers == {[i \in 1..k |-> "d"] : k \in 0..MaxLP}

\* a step left by an earlier call
Earlier == [Command |-> <<"M">>, Parameters |-> <<atofValue(<<"0">>)>>]

\* glyphs as the XML decoder leaves them: a primary path of any shape
InitPrimary ==
    /\ D \in {Ptr(s) : s \in Strings(Runes, MaxLen)}
    /\ DOrig = NilPtr
    /\ GerberLP = NilPtr
    /\ Unicode = Ptr(<<"A">>)
    /\ PathSteps = <<>>

\* glyphs with every combination of optional attributes
InitAttrs ==
    /\ D \in {NilPtr, Ptr(<<>>), Ptr(<<"M", "1">>), Ptr(<<"z", "Z">>),
             Ptr(<<"X", "1", "0", ",", "1", "0">>), Ptr(<<"Q">>)}
    /\ DOrig \in {NilPtr} \cup {Ptr(s) : s \in Strings(OrigRunes, MaxOrig)}
    /\ GerberLP \in {NilPtr} \cup {Ptr(s) : s \in Markers}
    /\ Unicode \in {NilPtr, Ptr(<<"A">>)}
    /\ PathSteps \in {<<>>, <<Earlier>>}

Init ==
    /\ InitPrimary \/ InitAttrs
    /\ pc = "entry"
    /\ d = <<>>
    /\ numZs = 0
    /\ m = NoMatch
    /\ pd = <<>>
    /\ result = <<>>
    /\ log = <<>>
    /\ fatal = <<>>
    /\ taken = <<>>
    /\ path = NilPtr
    /\ old = PathSteps

\* --------------------------------------------------------------- ParsePath
\* line 76: the override is used
UsesDOrig == DOrig # NilPtr /\ Deref(DOrig) # <<>>

\* line 105: the close count and the polarity marker disagree
Mismatch ==
    numZs > 1 /\ (IF GerberLP = NilPtr THEN TRUE ELSE Len(Deref(GerberLP)) # numZs)

\* lines 72-74 (the receiver is a glyph of the font: g is not nil)
ReturnNil ==
    /\ pc = "entry"
    /\ D = NilPtr
    /\ pc' = "done"
    /\ UNCHANGED <<glyph, PathSteps, d, numZs, m, pd, result, log, fatal, taken, path>>

\* line 75, the condition of line 76 false
UseD ==
    /\ pc = "entry"
    /\ D # NilPtr
    /\ ~UsesDOrig
    /\ d' = Deref(D)
    /\ path' = D
    /\ pc' = "scan"
    /\ UNCHANGED <<glyph, PathSteps, numZs, m, pd, result, log, fatal, taken>>

\* lines 75-80
UseDOrig ==
    /\ pc = "entry"
    /\ D # NilPtr
    /\ UsesDOrig
    /\ Unicode # NilPtr
    /\ log' = Append(log, [kind |-> "using DOrig", glyph |-> Deref(Unicode)])
    /\ d' = Deref(DOrig)
    /\ path' = DOrig
    /\ pc' = "scan"
    /\ UNCHANGED <<glyph, PathSteps, numZs, m, pd, result, fatal, taken>>

\* line 78 with g.Unicode nil: *g.Unicode is a nil pointer dereference
PanicDOrig ==
    /\ pc = "entry"
    /\ D # NilPtr
    /\ UsesDOrig
    /\ Unicode = NilPtr
    /\ pc' = "panic at 78"
    /\ UNCHANGED <<glyph, PathSteps, d, numZs, m, pd, result, log, fatal, taken, path>>

\* lines 84-90
CloseStep ==
    /\ pc = "scan"
    /\ d # <<>>
    /\ closeRE(d).ok
    /\ PathSteps' = Append(PathSteps, [Command |-> closeRE(d).m1, Parameters |-> <<>>])
    /\ d' = From(d, Len(closeRE(d).m0))
    /\ numZs' = numZs + 1
    /\ taken' = Append(taken, closeRE(d).m0)
    /\ UNCHANGED <<glyph, pc, m, pd, result, log, fatal, path>>

\* lines 92-96: cmdRE matches and parseParams(m[0][1:]) is called
CmdMatch ==
    /\ pc = "scan"
    /\ d # <<>>
    /\ ~closeRE(d).ok
    /\ cmdRE(d).ok
    /\ m' = cmdRE(d)
    /\ pd' = From(cmdRE(d).m0, 1)
    /\ result' = <<>>
    /\ pc' = "params"
    /\ UNCHANGED <<glyph, PathSteps, d, numZs, log, fatal, taken, path>>

\* line 102
UnknownCommand ==
    /\ pc = "scan"
    /\ d # <<>>
    /\ ~closeRE(d).ok
    /\ ~cmdRE(d).ok
    /\ fatal' = <<[msg |-> "Unknown path command", arg |-> d]>>
    /\ pc' = "fatal"
    /\ UNCHANGED <<glyph, PathSteps, d, numZs, m, pd, result, log, taken, path>>

\* lines 124-129, atof returning (lines 115, 119)
NumToken ==
    /\ pc = "params"
    /\ pd # <<>>
    /\ numRE(pd).ok
    /\ ~atofFails(numRE(pd).m1)
    /\ result' = Append(result, atofValue(numRE(pd).m1))
    /\ pd' = From(pd, Len(numRE(pd).m0))
    /\ UNCHANGED <<glyph, PathSteps, pc, d, numZs, m, log, fatal, taken, path>>

\* lines 124-126, atof failing (lines 115-117)
AtofFatal ==
    /\ pc = "params"
    /\ pd # <<>>
    /\ numRE(pd).ok
    /\ atofFails(numRE(pd).m1)
    /\ fatal' = <<[msg |-> "unable to parse as float64", arg |-> numRE(pd).m1]>>
    /\ pc' = "fatal"
    /\ UNCHANGED <<glyph, PathSteps, d, numZs, m, pd, result, log, taken, path>>

\* line 130
ParamsFatal ==
    /\ pc = "params"
    /\ pd # <<>>
    /\ ~numRE(pd).ok
    /\ fatal' = <<[msg |-> "parseParams: unable to parse", arg |-> pd]>>
    /\ pc' = "fatal"
    /\ UNCHANGED <<glyph, PathSteps, d, numZs, m, pd, result, log, taken, path>>

\* line 132, then lines 94-99
ParamsReturn ==
    /\ pc = "params"
    /\ pd = <<>>
    /\ PathSteps' = Append(PathSteps, [Command |-> m.m1, Parameters |-> result])
    /\ d' = From(d, Len(m.m0))
    /\ taken' = Append(taken, m.m0)
    /\ m' = NoMatch
    /\ result' = <<>>
    /\ pc' = "scan"
    /\ UNCHANGED <<glyph, numZs, pd, log, fatal, path>>

\* lines 83, 105, 112: the loop ends and the counts agree
ReturnQuiet ==
    /\ pc = "scan"
    /\ d = <<>>
    /\ ~Mismatch
    /\ pc' = "done"
    /\ UNCHANGED <<glyph, PathSteps, d, numZs, m, pd, result, log, fatal, taken, path>>

\* lines 105-112
ReturnWarned ==
    /\ pc = "scan"
    /\ d = <<>>
    /\ Mismatch
    /\ Unicode # NilPtr
    /\ log' = Append(log, [kind |-> "numZs", glyph |-> Deref(Unicode),
                           numZs |-> numZs, GerberLP |-> GerberLP])
    /\ pc' = "done"
    /\ UNCHANGED <<glyph, PathSteps, d, numZs, m, pd, result, fatal, taken, path>>

\* lines 107 and 109 with g.Unicode nil
PanicWarning ==
    /\ pc = "scan"
    /\ d = <<>>
    /\ Mismatch
    /\ Unicode = NilPtr
    /\ pc' = "panic at 107"
    /\ UNCHANGED <<glyph, PathSteps, d, numZs, m, pd, result, log, fatal, taken, path>>

Next ==
    \/ ReturnNil
    \/ UseD
    \/ UseDOrig
    \/ PanicDOrig
    \/ CloseStep
    \/ CmdMatch
    \/ UnknownCommand
    \/ NumToken
    \/ AtofFatal
    \/ ParamsFatal
    \/ ParamsReturn
    \/ ReturnQuiet
    \/ ReturnWarned
    \/ PanicWarning

Spec == Init /\ [][Next]_vars

\* ------------------------------------------------------ vocabulary of the claims
RECURSIVE Concat(_)
Concat(ss) == IF ss = <<>> THEN <<>> ELSE Head(ss) \o Concat(Tail(ss))

Range(f) == {f[i] : i \in DOMAIN f}

\* the steps this call has appended
Appended == SubSeq(PathSteps, Len(old) + 1, Len(PathSteps))

IsNotice(e) == e.kind = "using DOrig"
IsWarning(e) == e.kind = "numZs"
Notices == Len(SelectSeq(log, IsNotice))
Warnings == Len(SelectSeq(log, IsWarning))

Panicked == pc \in {"panic at 78", "panic at 107"}
Ended == pc \in {"done", "fatal"} \/ Panicked

\* the scanning loop ran and consumed its whole string
LoopOver == path # NilPtr /\ pc \in {"done", "panic at 107"}

HasOverride == DOrig # NilPtr /\ Deref(DOrig) # <<>>

AsciiLetters == {"m", "l", "h", "v", "c", "s", "q", "t", "a",
                 "M", "L", "H", "V", "C", "S", "Q", "T", "A"}

IsClose(c) == c \in {"z", "Z"}

\* a signed decimal: an optional '-', digits, and optionally '.' and digits
IsDecimal(tok) ==
    LET b == IF tok # <<>> /\ tok[1] = "-" THEN Tail(tok) ELSE tok
    IN  \E i \in 1..Len(b) :
            /\ \A j \in 1..i : IsDigit(b[j])
            /\ \/ i = Len(b)
               \/ /\ b[i + 1] = "."
                  /\ \A j \in (i + 2)..Len(b) : IsDigit(b[j])

RECURSIVE CommaSplit(_, _)
CommaSplit(s, cur) ==
    IF s = <<>> THEN <<cur>>
    ELSE IF Head(s) = "," THEN <<cur>> \o CommaSplit(Tail(s), <<>>)
    ELSE CommaSplit(Tail(s), Append(cur, Head(s)))

\* <letter><n1>,<n2>,...,<nk>
IsLetterNumbers(s) ==
    /\ Len(s) >= 2
    /\ s[1] \in AsciiLetters
    /\ \A tok \in Range(CommaSplit(Tail(s), <<>>)) : IsDecimal(tok)

\* the value of a signed decimal: its sign, and its digits before and after
\* the point without leading and trailing zeros
RECURSIVE DropZerosLeft(_)
DropZerosLeft(ds) == IF ds # <<>> /\ Head(ds) = "0" THEN DropZerosLeft(Tail(ds)) ELSE ds

RECURSIVE DropZerosRight(_)
DropZerosRight(ds) ==
    IF ds # <<>> /\ ds[Len(ds)] = "0" THEN DropZerosRight(SubSeq(ds, 1, Len(ds) - 1))
    ELSE ds

DecimalValue(tok) ==
    LET neg == tok[1] = "-"
        b   == IF neg THEN Tail(tok) ELSE tok
        dot == IF \E i \in 1..Len(b) : b[i] = "."
               THEN CHOOSE i \in 1..Len(b) : b[i] = "."
               ELSE Len(b) + 1
    IN  [neg |-> neg, int |-> DropZerosLeft(SubSeq(b, 1, dot - 1)),
         frac |-> DropZerosRight(SubSeq(b, dot + 1, Len(b)))]

\* the decimal is below 10^309 (it has no run of 309 nines before its point)
InFloatRange(tok) ==
    \A k \in 1..Len(DecimalValue(tok).int) : DecimalValue(tok).int[k] # Nines

LetterNumbersStep(s) ==
    LET toks == CommaSplit(Tail(s), <<>>)
    IN  [Command |-> <<s[1]>>,
         Parameters |-> [i \in 1..Len(toks) |-> DecimalValue(toks[i])]]

\* close commands with whitespace between or after them
IsCloseOnly(s) ==
    /\ \A i \in 1..Len(s) : IsClose(s[i]) \/ IsSpace(s[i])
    /\ s # <<>> => IsClose(s[1])

CloseLetters(s) == SelectSeq(s, IsClose)

\* the remainder starts with the close-command pattern: z or Z
StartsClose(s) == s # <<>> /\ IsClose(s[1])

\* the remainder starts with the general-command pattern: a letter of the
\* class, optional whitespace, an optional '-', and a digit
StartsCommand(s) ==
    \E w \in 1..2 : \E i \in (w + 1)..Len(s) :
        /\ IF w = 1 THEN s[1] \in AsciiLetters ELSE s[1] = "C5" /\ s[2] = "BF"
        /\ IsDigit(s[i])
        /\ \E j \in (w + 1)..i :
              /\ \A k \in (w + 1)..(j - 1) : IsSpace(s[k])
              /\ j = i \/ (j = i - 1 /\ s[j] = "-")

\* ------------------------------------------------------------------ claims

\* C1: whenever the override DOrig is present and non-empty, the call parses
\* exactly the override and logs the substitution once, whatever D is (absent
\* and empty included); otherwise the primary path is parsed and no
\* substitution is logged.
C1_OverridePrecedence ==
    (pc = "done" \/ Panicked) =>
        IF HasOverride
        THEN path = DOrig /\ Concat(taken) = Deref(DOrig) /\ Notices = 1
        ELSE Notices = 0 /\ (D # NilPtr => path = D /\ Concat(taken) = Deref(D))

\* C2 as claimed: a path <letter><n1>,...,<nk> with k >= 1 signed decimals
\* yields exactly one step, whose Command is the letter as written and whose
\* Parameters are the k numbers in order.
C2_Original ==
    (path # NilPtr /\ IsLetterNumbers(Deref(path))) =>
        /\ pc # "fatal"
        /\ Ended => pc = "done" /\ Appended = <<LetterNumbersStep(Deref(path))>>

\* C2 as amended: a path <letter><n1>,...,<nk> with k >= 1 signed decimals,
\* each within the range of float64, yields exactly one step, whose Command is
\* the letter as written and whose Parameters are the k numbers in order.
C2_LetterNumbers ==
    (/\ path # NilPtr
     /\ IsLetterNumbers(Deref(path))
     /\ \A tok \in Range(CommaSplit(Tail(Deref(path)), <<>>)) : InFloatRange(tok)) =>
        /\ pc # "fatal"
        /\ Ended => pc = "done" /\ Appended = <<LetterNumbersStep(Deref(path))>>

C2_Witness ==
    /\ pc = "done"
    /\ path # NilPtr
    /\ IsLetterNumbers(Deref(path))
    /\ Len(Appended) = 1
    /\ Len(Appended[1].Parameters) >= 2

\* C3: once the whole string is consumed, exactly one mismatch warning is
\* logged if and only if more than one close command was found and the
\* polarity marker is absent or of another length; otherwise none is.
C3_PolarityWarning ==
    LoopOver =>
        LET closes == Len(SelectSeq(Concat(taken), IsClose))
            differ == IF GerberLP = NilPtr THEN TRUE ELSE Len(Deref(GerberLP)) # closes
        IN  Warnings = IF closes > 1 /\ differ THEN 1 ELSE 0

\* C4: the two diagnostics never abort the call, also for a glyph without a
\* unicode attribute.
C4_DiagnosticsNeverAbort == ~Panicked

\* C5: when the remainder starts with neither the close-command pattern nor
\* the general-command pattern, the call fails fatally, reports that remainder
\* unchanged and appends no step.
C5_UnknownCommand ==
    [][(pc = "scan" /\ d # <<>> /\ ~StartsClose(d) /\ ~StartsCommand(d)) =>
          /\ pc' = "fatal"
          /\ fatal' = <<[msg |-> "Unknown path command", arg |-> d]>>
          /\ PathSteps' = PathSteps]_vars

C5_Witness ==
    /\ pc = "fatal"
    /\ fatal = <<[msg |-> "Unknown path command", arg |-> <<"M">>]>>
    /\ Len(Appended) = 1

\* C6: a path made only of n close commands, with whitespace between or after
\* them, yields exactly n steps, each the close letter as written with no
\* parameters, and no polarity warning when n <= 1.
C6_CloseOnly ==
    (path # NilPtr /\ IsCloseOnly(Deref(path))) =>
        LET letters == CloseLetters(Deref(path))
        IN  /\ pc # "fatal"
            /\ LoopOver =>
                 Appended = [i \in 1..Len(letters) |->
                                [Command |-> <<letters[i]>>, Parameters |-> <<>>]]
            /\ Len(letters) <= 1 => Warnings = 0

C6_Witness ==
    /\ pc = "done"
    /\ path # NilPtr
    /\ IsCloseOnly(Deref(path))
    /\ Len(CloseLetters(Deref(path))) = 2
    /\ Len(Deref(path)) > 3
    /\ Len(Appended) = 2

\* C7: the numeric run consumed with a command letter holds nothing but
\* numbers, commas and whitespace (no '+'), and whitespace after a number is
\* always discarded, never left as an unknown command.
C7_NumericRun ==
    /\ \A i \in 1..Len(taken) : \A k \in 1..Len(taken[i]) : taken[i][k] # "+"
    /\ (pc = "fatal" /\ taken # <<>> /\ ~IsClose(taken[Len(taken)][1])) =>
          ~IsSpace(fatal[1].arg[1])

\* C8: on a successful return the prefixes removed from the path, in order,
\* concatenate to the whole path; each is the token of one appended step, in
\* the same order, after the steps that were there before.
C8_EveryCharacterConsumed ==
    (pc = "done" /\ path # NilPtr) =>
        /\ Concat(taken) = Deref(path)
        /\ Len(PathSteps) = Len(old) + Len(taken)
        /\ SubSeq(PathSteps, 1, Len(old)) = old
        /\ \A i \in 1..Len(taken) :
              /\ taken[i] # <<>>
              /\ Appended[i].Command = <<taken[i][1]>>
              /\ IF IsClose(taken[i][1])
                 THEN Appended[i].Parameters = <<>>
                 ELSE Len(Appended[i].Parameters) >= 1

C8_Witness ==
    /\ pc = "done"
    /\ old # <<>>
    /\ Len(taken) = 2
    /\ \E i \in 1..2 : IsSpace(taken[i][Len(taken[i])])

\* C9: parseParams never reaches its fatal branch when ParsePath calls it.
C9_ParamsNeverFatal ==
    pc = "fatal" => fatal[1].msg # "parseParams: unable to parse"

\* C10: every iteration of either loop has removed a non-empty prefix of the
\* string it scans, so neither loop runs more iterations than its string has
\* bytes; the scanning loop is left with the string empty or by a fatal
\* failure on a non-empty remainder.
C10_Terminates ==
    /\ path # NilPtr =>
          /\ Concat(taken) \o d = Deref(path)
          /\ \A i \in 1..Len(taken) : taken[i] # <<>>
    /\ pc = "params" =>
          /\ Len(result) + Len(pd) < Len(m.m0)
          /\ Len(m.m0) <= Len(d)
    /\ LoopOver => d = <<>>
    /\ pc = "fatal" => d # <<>>

C10_Witness ==
    /\ pc = "done"
    /\ path # NilPtr
    /\ Len(Deref(path)) >= 4
    /\ Len(taken) = 2
    /\ \E i \in 1..2 : Len(Appended[i].Parameters) >= 1

====
